---- MODULE Spec2Model ----
(***************************************************************************)
(* Token-gated access gateway: credential issuance, refresh-rotation,      *)
(* revocation, the periodic sweep and the per-request authorization gate.  *)
(*                                                                         *)
(* Time is the Unix-epoch second counter Math.floor(Date.now() / 1000).    *)
(* Node runs every handler to its next await without interleaving, so each *)
(* action below is one such synchronous segment of a handler.              *)
(***************************************************************************)
EXTENDS Integers, FiniteSets, Sequences, TLC

\* ---------------------------------------------------------------- bounds
\* the clock runs from second 0 to second MaxTime
MaxTime == 3
\* at most MaxPairs credential pairs are minted
MaxPairs == 2
\* the default lifetimes "15m" and "7d", scaled to the model's clock
AccessTtl == 1
RefreshTtl == 2
\* the lifetimes the environment may configure are 1..MaxTtl
MaxTtl == 2
\* windowMs of authLimiter (15 minutes), scaled to the model's clock
AuthWindow == 2
\* windowMs of mcpLimiter (1 minute), scaled to the model's clock
McpWindow == 1
\* at most MaxSessions downstream sessions are initialized
MaxSessions == 2
\* max of mcpLimiter and of generalLimiter (100 requests per window each),
\* scaled
ResourceMax == 2

\* ------------------------------------------------------------- constants
\* config.requiredTokenId: parseInt(process.env.REQUIRED_TOKEN_ID || '0')
requiredTokenId == 0
\* authLimiter: max: 5 attempts per window
authLimiterMax == 5
\* mcpLimiter: max: 100 requests per window
mcpLimiterMax == ResourceMax
\* generalLimiter: max: 100 requests per window
generalLimiterMax == ResourceMax
\* windowMs of generalLimiter: 15 minutes, as authLimiter's
GeneralWindow == AuthWindow

Req == {1, 2}
\* req.ip of the callers
Ips == {"ip1"}
\* req.ip of the callers of /mcp
Origins == {"ip1", "ip2"}
Wallets == {"w1"}
Contracts == {"c1"}
TokenIds == {requiredTokenId, requiredTokenId + 1}
Balances == {0, 1}
\* what a client may send as address, wallet or contract: nothing, a
\* string that is no address, or an address
Identities == {"", "zz"} \cup Wallets
ContractInputs == {"", "zz"} \cup Contracts
NoContract == "none"
\* the jti of a credential this process did not mint
UnknownJti == 0
\* in the record of an issuance: balanceOf threw, balanceOf was never called
OracleRejected == -1
OracleNotQueried == -2

VARIABLES
  now,                 \* Math.floor(Date.now() / 1000)
  ACCESS_TOKEN_EXPIRY, \* lifetime of an access credential, read from the environment
  REFRESH_TOKEN_EXPIRY,\* lifetime of a refresh credential, read from the environment
  refreshTokenStore,   \* Map<refresh token, RefreshTokenData>, as a set of entries
  unswept,             \* what refreshTokenStore would hold had no sweep ever run
  tokenBlacklist,      \* Set<jti>
  pairs,               \* every pair minted so far; pairs[j] is the pair with jti j
  reqs,                \* the requests in flight, one per connection slot
  authLimiter,         \* the hit counters of authLimiter, one client per key
  generalLimiter,      \* the hit counters of generalLimiter, one per req.ip
  mcpLimiter,          \* the hit counters of mcpLimiter, one client per key
  limitedAt,           \* per key: when /mcp last answered it 429 (-1: not)
  transports,          \* the session ids that have a transport
  sessionCount,        \* how many session ids randomUUID() has produced
  last                 \* the handler segment that ran last, with its outcome

vars == <<now, ACCESS_TOKEN_EXPIRY, REFRESH_TOKEN_EXPIRY, refreshTokenStore,
          unswept,
          tokenBlacklist, pairs, reqs, authLimiter, generalLimiter,
          mcpLimiter, limitedAt, transports, sessionCount, last>>

\* ------------------------------------------------------------ credentials
\* jwt.sign(payload, secret, {expiresIn}): iat is the signing second and
\* exp = iat + expiresIn. sig is whether the signature verifies under
\* config.jwtSecret.
AccessToken(address, tokenId, jti, contract, t) ==
  [sig |-> TRUE, sub |-> address, tokenId |-> tokenId, jti |-> jti,
   type |-> "access", contract |-> contract, iat |-> t,
   exp |-> t + ACCESS_TOKEN_EXPIRY]

RefreshToken(address, tokenId, jti, contract, t) ==
  [sig |-> TRUE, sub |-> address, tokenId |-> tokenId, jti |-> jti,
   type |-> "refresh", contract |-> contract, iat |-> t,
   exp |-> t + REFRESH_TOKEN_EXPIRY]

\* a credential whose signature does not verify; the expiry it carries
\* lies ahead at second 0 and has passed from second 1 on
ForgedToken ==
  [sig |-> FALSE, sub |-> "w1", tokenId |-> requiredTokenId, jti |-> UnknownJti,
   type |-> "access", contract |-> NoContract, iat |-> 0, exp |-> 1]

\* no Authorization header / no credential in the body
NoToken ==
  [sig |-> FALSE, sub |-> "", tokenId |-> 0, jti |-> UnknownJti,
   type |-> "none", contract |-> NoContract, iat |-> 0, exp |-> 0]

\* what authHeader.split(" ")[1] is for a header of one word: jwt.verify
\* refuses it ("jwt must be provided")
UndefinedToken ==
  [sig |-> FALSE, sub |-> "", tokenId |-> 0, jti |-> UnknownJti,
   type |-> "undefined", contract |-> NoContract, iat |-> 0, exp |-> 0]

Jtis == 1..Len(pairs)

\* the pairs rotated from the pair with jti j
Children(j) == {k \in Jtis : pairs[k].parent = j}

RefreshTokens == {pairs[j].refresh : j \in Jtis}

\* the credentials a client can present
Presentable ==
  {pairs[j].access : j \in Jtis} \cup RefreshTokens \cup {ForgedToken}

\* jwt.verify trusting the payload without testing the signature
jwtVerifyUnsigned(tok, t) ==
  IF t >= tok.exp THEN "TokenExpiredError" ELSE "ok"

\* jwt.verify testing the expiry before the signature
jwtVerifyExpiryFirst(tok, t) ==
  IF t >= tok.exp THEN "TokenExpiredError"
  ELSE IF ~tok.sig THEN "JsonWebTokenError"
  ELSE "ok"

\* jwt.verify with the expiry test off by one second
jwtVerifyLate(tok, t) ==
  IF ~tok.sig THEN "JsonWebTokenError"
  ELSE IF t > tok.exp THEN "TokenExpiredError"
  ELSE "ok"

\* jwt.verify(token, secret) at clock second t
jwtVerify(tok, t) ==
  IF ~tok.sig THEN "JsonWebTokenError"
  ELSE IF t >= tok.exp THEN "TokenExpiredError"
  ELSE "ok"

\* ----------------------------------------------------------- tokenManager
isTokenRevoked(jti) == jti \in tokenBlacklist

StoreGet(store, tok) == {e \in store : e.token = tok}

StoreDelete(store, tok) == {e \in store : e.token # tok}

StoreSet(store, tok, data) ==
  StoreDelete(store, tok)
    \cup {[token |-> tok, address |-> data.address, tokenId |-> data.tokenId,
           jti |-> data.jti, createdAt |-> data.createdAt]}

\* a revokeToken that toggles the entry
revokeTokenToggle(blacklist, jti) ==
  IF jti \in blacklist THEN blacklist \ {jti} ELSE blacklist \cup {jti}

\* revokeToken(jti): the blacklist and the store it leaves
revokeTokenBlacklist(blacklist, jti) == blacklist \cup {jti}

\* a revokeToken that ends every session
revokeTokenStoreAll(store, jti) == {}

\* a revokeToken that leaves the records of the jti in the store
revokeTokenStoreKeeps(store, jti) == store

revokeTokenStore(store, jti) == {e \in store : e.jti # jti}

\* generateJti(): 16 random bytes, never one that is in use
generateJti == Len(pairs) + 1

\* issueTokenPair(address, tokenId, jwtSecret, additionalClaims): the pair
\* minted at second t; parent is the jti it was rotated from (0: none)
issueTokenPair(address, tokenId, contract, parent, t) ==
  [access |-> AccessToken(address, tokenId, generateJti, contract, t),
   refresh |-> RefreshToken(address, tokenId, generateJti, contract, t),
   jti |-> generateJti, parent |-> parent]

\* the store after issueTokenPair has recorded the pair
issueTokenPairStore(store, pair, t) ==
  StoreSet(store, pair.refresh,
           [address |-> pair.refresh.sub, tokenId |-> pair.refresh.tokenId,
            jti |-> pair.jti, createdAt |-> t])

\* refreshAccessToken(refreshToken, jwtSecret): which check stops it
refreshAccessTokenOutcomeIn(store, blacklist, tok, t) ==
  LET v == jwtVerify(tok, t)
      stored == StoreGet(store, tok)
  IN  IF v = "TokenExpiredError" THEN "ExpiredCredential"
      ELSE IF v = "JsonWebTokenError" THEN "MalformedCredential"
      ELSE IF tok.type # "refresh" THEN "WrongCredentialKind"
      ELSE IF stored = {} THEN "SessionNotFound"
      ELSE IF \E e \in stored : e.jti \in blacklist THEN "CredentialRevoked"
      ELSE "Refreshed"

refreshAccessTokenOutcome(tok) ==
  refreshAccessTokenOutcomeIn(refreshTokenStore, tokenBlacklist, tok, now)

\* refreshAccessToken finding the jti of the record on the blacklist:
\* refreshTokenStore.delete(refreshToken), then it throws
refreshAccessTokenRevoked(store, tok) == StoreDelete(store, tok)

\* the additionalClaims refreshAccessToken passes on to issueTokenPair:
\* none, whatever the refreshed credential carried
refreshAccessTokenContract(storedData, tok) == NoContract

\* a refresh that renews: the old pair is neither revoked nor deleted
refreshAccessTokenRenew(store, blacklist, storedData, tok) ==
  [store |-> store, blacklist |-> blacklist]

\* refreshAccessToken, "Revoke old tokens": revokeToken(storedData.jti),
\* then refreshTokenStore.delete(refreshToken)
refreshAccessTokenRotate(store, blacklist, storedData, tok) ==
  [store |-> StoreDelete(revokeTokenStore(store, storedData.jti), tok),
   blacklist |-> revokeTokenBlacklist(blacklist, storedData.jti)]

\* a sweep that empties the store
cleanupExpiredTokensStoreAll(store, t) == {}

\* cleanupExpiredTokens(): the store the sweep leaves
cleanupExpiredTokensStore(store, t) == {e \in store : ~(e.token.exp < t)}

\* a sweep that empties the blacklist
cleanupExpiredTokensForget(blacklist, t) == {}

\* cleanupExpiredTokens(): "we'll keep the blacklist as is"
cleanupExpiredTokensBlacklist(blacklist, t) == blacklist

\* ------------------------------------------------------------- jwtIssuer
\* a balance test that lets every balance pass
balanceAny(balance) == TRUE

\* issueJwt / issueDynamicJwt: balance === 0n throws "does not hold token"
holdsToken(balance) == balance # 0

\* ------------------------------------------------------ evmAuthMiddleware
\* a gate that takes every kind of credential
anyTokenType(tok) == TRUE

\* payload.type !== 'access' is refused
isAccessToken(tok) == tok.type = "access"

\* the token id compared with the configuration for every credential
requirementCheckStrict(tok) ==
  IF tok.tokenId # requiredTokenId THEN "RequirementMismatch" ELSE "Admitted"

\* if (payload.contract) accept; else if (payload.tokenId !==
\* config.requiredTokenId) 401 "Invalid tokenId in JWT"
requirementCheck(tok) ==
  IF tok.contract # NoContract THEN "Admitted"
  ELSE IF tok.tokenId # requiredTokenId THEN "RequirementMismatch"
  ELSE "Admitted"

\* the gate with the revocation test ahead of verification and kind
evmAuthMiddlewareRevokedFirst(tok) ==
  IF tok = NoToken THEN "MissingCredential"
  ELSE IF tok.jti # UnknownJti /\ isTokenRevoked(tok.jti)
       THEN "CredentialRevoked"
  ELSE LET v == jwtVerify(tok, now)
       IN  IF v = "TokenExpiredError" THEN "ExpiredCredential"
           ELSE IF v = "JsonWebTokenError" THEN "MalformedCredential"
           ELSE IF ~isAccessToken(tok) THEN "WrongCredentialKind"
           ELSE requirementCheck(tok)

evmAuthMiddleware(tok) ==
  IF tok = NoToken THEN "MissingCredential"
  ELSE LET v == jwtVerify(tok, now)
       IN  IF v = "TokenExpiredError" THEN "ExpiredCredential"
           ELSE IF v = "JsonWebTokenError" THEN "MalformedCredential"
           ELSE IF ~isAccessToken(tok) THEN "WrongCredentialKind"
           ELSE IF tok.jti # UnknownJti /\ isTokenRevoked(tok.jti)
                THEN "CredentialRevoked"
           ELSE requirementCheck(tok)

\* the Authorization header of a request: absent, one word, or
\* "<scheme> <credential>"
Schemes == {"Bearer", "Basic"}

NoHeader == [words |-> 0, scheme |-> "none", tok |-> NoToken]

OneWordHeader == [words |-> 1, scheme |-> "", tok |-> NoToken]

Header(scheme, tok) == [words |-> 2, scheme |-> scheme, tok |-> tok]

Headers ==
  {NoHeader, OneWordHeader}
    \cup {Header(s, tok) : s \in Schemes, tok \in Presentable}

\* const token = authHeader.split(" ")[1]
splitToken(hdr) ==
  IF hdr.words = 0 THEN NoToken
  ELSE IF hdr.words = 1 THEN UndefinedToken
  ELSE hdr.tok

\* evmAuthMiddleware on the header as received: if (!authHeader) 401
\* "Missing Authorization header", else the second word goes to jwt.verify
evmAuthMiddlewareHeader(hdr) ==
  IF hdr.words = 0 THEN "MissingCredential"
  ELSE evmAuthMiddleware(splitToken(hdr))

\* ethers.isAddress
isAddress(a) == a \in Wallets \cup Contracts

\* a JavaScript number: NaN, or the integer below it and whether it is one;
\* json is the kind of JSON value it was made from (integer stands for a
\* non-negative one)
JsNumber(nan, isInteger, val, json) ==
  [nan |-> nan, isInteger |-> isInteger, val |-> val, json |-> json]

\* a token id that is a JSON integer
JsInt(n) ==
  JsNumber(FALSE, TRUE, n, IF n < 0 THEN "negative" ELSE "integer")

\* what a client may send as tokenId of POST /auth/dynamic: nothing, null,
\* the strings "" and "abc", and the numbers -1, 1.5 and 1
JsonAbsent == [json |-> "undefined", text |-> "", num |-> JsInt(0)]
JsonNull == [json |-> "null", text |-> "", num |-> JsInt(0)]
JsonString(text) == [json |-> "string", text |-> text, num |-> JsInt(0)]
JsonNumber(num) == [json |-> "number", text |-> "", num |-> num]

RawTokenIds ==
  {JsonAbsent, JsonNull, JsonString(""), JsonString("abc"),
   JsonNumber(JsInt(0 - 1)),
   JsonNumber(JsNumber(FALSE, FALSE, requiredTokenId + 1, "fraction")),
   JsonNumber(JsInt(requiredTokenId + 1))}

\* Number(tokenId): null and "" become 0, a string that is no numeral
\* becomes NaN, a number is itself
Number(raw) ==
  CASE raw.json = "null" -> JsNumber(FALSE, TRUE, 0, "null")
    [] raw.json = "string" /\ raw.text = "" ->
         JsNumber(FALSE, TRUE, 0, "empty string")
    [] raw.json = "string" /\ raw.text # "" ->
         JsNumber(TRUE, FALSE, 0, "string")
    [] raw.json = "undefined" -> JsNumber(TRUE, FALSE, 0, "undefined")
    [] OTHER -> raw.num

\* tokenId < 0 || !Number.isInteger(tokenId)
invalidTokenId(n) == (~n.nan /\ n.val < 0) \/ ~(~n.nan /\ n.isInteger)

\* ---------------------------------------------------------------- state
IdleReq ==
  [pc |-> "idle", kind |-> "none", wallet |-> "", tokenId |-> 0,
   contract |-> NoContract, tok |-> NoToken, overtaken |-> FALSE,
   json |-> "", queries |-> 0, closed |-> FALSE]

\* the record of a handler segment: what ran, on what, with what outcome,
\* and the store and blacklist it started from
Ran(op, tok, jti, out, new, balance, raced) ==
  [op |-> op, tok |-> tok, jti |-> jti, out |-> out, new |-> new,
   balance |-> balance, raced |-> raced, key |-> "", retryAfter |-> 0,
   scheme |-> "", wallet |-> "", contract |-> "", json |-> "",
   queries |-> 0, delivered |-> TRUE, expiresIn |-> 0, by |-> "",
   limitedAt |-> -1, method |-> "", sid |-> "", init |-> FALSE,
   preTransports |-> transports, preStore |-> refreshTokenStore,
   preBlacklist |-> tokenBlacklist]

NoOp == Ran("none", NoToken, 0, "", 0, 0, FALSE)

Config == <<ACCESS_TOKEN_EXPIRY, REFRESH_TOKEN_EXPIRY>>

\* the Session Store and its copy that no sweep touches
Stores == <<refreshTokenStore, unswept>>

\* the state of the /mcp route: its limiters and the downstream sessions
Resource ==
  <<generalLimiter, mcpLimiter, limitedAt, transports, sessionCount>>

\* what the issuance handlers never write: the configuration and the
\* state of the /mcp route
Rest == <<Config, Resource>>

\* what no handler behind the limiters writes: the configuration and the
\* limiter's counters
Quiet == <<Config, authLimiter, Resource>>

\* the keys authLimiter counts under: getKey answers the sub of the bearer
\* credential, decoded without verification, or else req.ip
Keys == Ips \cup Wallets

\* the keys mcpLimiter counts under
McpKeys == Origins \cup Wallets

\* a key authLimiter has no client for
NoClient == [totalHits |-> 0, resetTime |-> 0]

InitState ==
  /\ now = 0
  /\ refreshTokenStore = {}
  /\ unswept = {}
  /\ tokenBlacklist = {}
  /\ pairs = <<>>
  /\ reqs = [p \in Req |-> IdleReq]
  /\ authLimiter = [k \in Keys |-> NoClient]
  /\ generalLimiter = [ip \in Origins |-> NoClient]
  /\ mcpLimiter = [k \in McpKeys |-> NoClient]
  /\ limitedAt = [k \in McpKeys |-> -1]
  /\ transports = {}
  /\ sessionCount = 0
  /\ last = NoOp

\* the process starts with the default lifetimes
Init ==
  /\ ACCESS_TOKEN_EXPIRY = AccessTtl
  /\ REFRESH_TOKEN_EXPIRY = RefreshTtl
  /\ InitState

\* the process starts with whatever lifetimes the environment names
InitEnv ==
  /\ ACCESS_TOKEN_EXPIRY \in 1..MaxTtl
  /\ REFRESH_TOKEN_EXPIRY \in 1..MaxTtl
  /\ InitState

\* --------------------------------------------------------------- actions
\* a new request takes the lowest free connection slot
FreeSlot(p) ==
  /\ reqs[p].pc = "idle"
  /\ \A q \in Req : q < p => reqs[q].pc # "idle"

\* an issuance asking the oracle a second time
balanceOfCallsTwice(n) == n + 2

\* await evmAuth.balanceOf(...): the one oracle call of issueJwt and of
\* issueDynamicJwt, added to the n calls the request has made
balanceOfCalls(n) == n + 1

\* POST /auth: authHandler calls issueJwt, which awaits evmAuth.balanceOf
issueJwt(p, address) ==
  /\ FreeSlot(p)
  /\ reqs' = [reqs EXCEPT ![p] =
       [IdleReq EXCEPT !.pc = "oracle", !.kind = "static", !.wallet = address,
                       !.tokenId = requiredTokenId,
                       !.queries = balanceOfCalls(0)]]
  /\ last' = NoOp
  /\ UNCHANGED <<now, Rest, Stores, tokenBlacklist, pairs>>

\* expiresIn: tokens.accessTokenExp in issueJwt, refreshJwt and
\* issueDynamicJwt, where issueTokenPair returns accessTokenExp:
\* accessDecoded.exp, the exp claim of the access credential
expiresIn(pair) == pair.access.exp

\* the record of an issuance request answered before any oracle call
Refused(op, out, wallet, contract, json) ==
  [Ran(op, NoToken, 0, out, 0, OracleNotQueried, FALSE)
     EXCEPT !.wallet = wallet, !.contract = contract, !.json = json]

\* the record of the issuance request of slot p answered after the oracle
\* call
Answered(p, out, new, balance) ==
  [Ran(reqs[p].kind, NoToken, 0, out, new, balance, FALSE)
     EXCEPT !.wallet = reqs[p].wallet, !.contract = reqs[p].contract,
            !.json = reqs[p].json, !.queries = reqs[p].queries,
            !.delivered = ~reqs[p].closed]

\* authHandler: a request without address is answered 400 "Missing
\* address"; every other address goes to issueJwt
authHandler(p, address) ==
  IF address = ""
  THEN /\ last' = Refused("static", "InvalidIdentity", address, NoContract, "")
       /\ UNCHANGED <<now, Rest, Stores, tokenBlacklist, pairs,
                      reqs>>
  ELSE issueJwt(p, address)

\* issueDynamicJwt: a wallet or contract that is no address, or a token id
\* that is negative or no integer, throws ("Invalid wallet address",
\* "Invalid contract address", "Invalid token ID": 401); otherwise it awaits
\* balanceOf on the contract of the request
issueDynamicJwt(p, wallet, contract, tokenId) ==
  IF ~isAddress(wallet) \/ ~isAddress(contract) \/ invalidTokenId(tokenId)
  THEN /\ last' = Refused("dynamic", "InvalidRequest", wallet, contract,
                          tokenId.json)
       /\ UNCHANGED <<now, Rest, Stores, tokenBlacklist, pairs,
                      reqs>>
  ELSE /\ FreeSlot(p)
       /\ reqs' = [reqs EXCEPT ![p] =
            [IdleReq EXCEPT !.pc = "oracle", !.kind = "dynamic",
                            !.wallet = wallet, !.tokenId = tokenId.val,
                            !.contract = contract, !.json = tokenId.json,
                            !.queries = balanceOfCalls(0)]]
       /\ last' = NoOp
       /\ UNCHANGED <<now, Rest, Stores, tokenBlacklist, pairs>>

\* dynamicAuthHandler: a request without wallet, contract or tokenId is
\* answered 400 "Missing required fields"; otherwise issueDynamicJwt gets
\* the wallet, the contract and Number(tokenId)
dynamicAuthHandler(p, wallet, contract, raw) ==
  IF wallet = "" \/ contract = "" \/ raw.json = "undefined"
  THEN /\ last' = Refused("dynamic", "InvalidRequest", wallet, contract,
                          raw.json)
       /\ UNCHANGED <<now, Rest, Stores, tokenBlacklist, pairs,
                      reqs>>
  ELSE issueDynamicJwt(p, wallet, contract, Number(raw))

\* balanceOf resolves: issueJwt / issueDynamicJwt run on to their return and
\* the handler answers
balanceOfResolves(p, balance) ==
  /\ reqs[p].pc = "oracle"
  /\ reqs' = [reqs EXCEPT ![p] = IdleReq]
  /\ IF ~holdsToken(balance)
     THEN /\ last' = Answered(p, "OwnershipNotSatisfied", 0, balance)
          /\ UNCHANGED <<Stores, pairs>>
     ELSE /\ Len(pairs) < MaxPairs
          /\ LET pair == issueTokenPair(reqs[p].wallet, reqs[p].tokenId,
                                        reqs[p].contract, 0, now)
             IN  /\ pairs' = Append(pairs, pair)
                 /\ refreshTokenStore' =
                      issueTokenPairStore(refreshTokenStore, pair, now)
                 /\ unswept' = issueTokenPairStore(unswept, pair, now)
                 /\ last' = [Answered(p, "Issued", pair.jti, balance)
                               EXCEPT !.expiresIn = expiresIn(pair)]
  /\ UNCHANGED <<now, Quiet, tokenBlacklist>>

\* the client of the request in slot p closes its connection while
\* balanceOf is awaited. authHandler and dynamicAuthHandler register no
\* listener for it and the awaited call carries no abort signal: the
\* request goes on as before and res.json later writes to a closed socket
clientDisconnects(p) ==
  /\ reqs[p].pc = "oracle"
  /\ ~reqs[p].closed
  /\ reqs' = [reqs EXCEPT ![p].closed = TRUE]
  /\ last' = NoOp
  /\ UNCHANGED <<now, Quiet, Stores, tokenBlacklist, pairs>>

\* getKey(req): the sub of the bearer credential, decoded without
\* verification, or else req.ip
getKey(ip, hdr) == IF hdr # NoToken /\ hdr.sub # "" THEN hdr.sub ELSE ip

\* the limiter's store counts a hit for a client: a client whose window has
\* elapsed (or a new one) starts a window at this hit
increment(client, t) ==
  IF client.resetTime <= t
  THEN [totalHits |-> 1, resetTime |-> t + AuthWindow]
  ELSE [client EXCEPT !.totalHits = @ + 1]

\* the limiter refusing from the max-th hit on
authLimiterExceededEarly(client) == client.totalHits >= authLimiterMax

\* max: 5: a hit beyond the fifth of its window is refused
authLimiterExceeded(client) == client.totalHits > authLimiterMax

\* a limiter that hands every request on
limiterCallsNextAlways(exceeded) == TRUE

\* a limiter calls next() for a hit within max; for a hit beyond max it
\* calls its handler, and neither the default handler nor the one of
\* authLimiter calls next()
limiterCallsNext(exceeded) == ~exceeded

\* handler of authLimiter: 429 with retryAfter: req.rateLimit.resetTime
authLimiterHandler(op, key, client) ==
  [Ran(op, NoToken, 0, "RateLimited", 0, OracleNotQueried, FALSE)
     EXCEPT !.key = key, !.retryAfter = client.resetTime]

\* a route registered behind authLimiter: the hit is counted, then either
\* the limiter answers 429 or the route's handler runs; hits are counted up
\* to one beyond max
authLimited(ip, hdr, op, handler) ==
  LET key == getKey(ip, hdr)
      client == increment(authLimiter[key], now)
  IN  /\ client.totalHits <= authLimiterMax + 1
      /\ authLimiter' = [authLimiter EXCEPT ![key] = client]
      /\ IF ~limiterCallsNext(authLimiterExceeded(client))
         THEN /\ last' = authLimiterHandler(op, key, client)
              /\ UNCHANGED <<now, Rest, Stores, tokenBlacklist,
                             pairs, reqs>>
         ELSE handler

\* app.post("/auth", authLimiter, authHandler)
postAuth(p, ip, hdr, address) ==
  authLimited(ip, hdr, "static", authHandler(p, address))

\* app.post("/auth/dynamic", authLimiter, dynamicAuthHandler)
postAuthDynamic(p, ip, hdr, wallet, contract, raw) ==
  authLimited(ip, hdr, "dynamic",
              dynamicAuthHandler(p, wallet, contract, raw))

\* the catch block of issueJwt / issueDynamicJwt logs the error and throws
\* it again; the handler answers 401 with the error's own message
issueJwtCatchMasks(error) == "OwnershipNotSatisfied"

issueJwtCatch(error) == error

\* balanceOf throws (RPC error, or the adapter's own timeout): the error
\* passes through the catch block to the handler, which answers 401 with a
\* message that is not the "does not hold token" one
balanceOfRejects(p) ==
  /\ reqs[p].pc = "oracle"
  /\ reqs' = [reqs EXCEPT ![p] = IdleReq]
  /\ last' = Answered(p, issueJwtCatch("OracleUnavailable"), 0,
                      OracleRejected)
  /\ UNCHANGED <<now, Quiet, Stores, tokenBlacklist, pairs>>

\* POST /auth/refresh arrives with a credential in its body
refreshArrives(p, tok) ==
  /\ FreeSlot(p)
  /\ reqs' = [reqs EXCEPT ![p] =
       [IdleReq EXCEPT !.pc = "arrived", !.kind = "refresh", !.tok = tok]]
  /\ last' = NoOp
  /\ UNCHANGED <<now, Quiet, Stores, tokenBlacklist, pairs>>

\* the slots after request p has been answered; a request still in flight
\* with the credential that p has just rotated is marked overtaken
AfterRefresh(p, rotated) ==
  [q \in Req |->
     IF q = p THEN IdleReq
     ELSE IF rotated /\ reqs[q].pc = "arrived" /\ reqs[q].tok = reqs[p].tok
          THEN [reqs[q] EXCEPT !.overtaken = TRUE]
     ELSE reqs[q]]

\* refreshAccessToken(refreshToken, jwtSecret): one synchronous run from
\* jwt.verify to the return of issueTokenPair (which awaits nothing); raced
\* tells whether a concurrent request rotated the credential meanwhile
refreshAccessToken(tok, raced) ==
  LET out == refreshAccessTokenOutcome(tok)
  IN  \/ /\ out = "Refreshed"
         /\ Len(pairs) < MaxPairs
         /\ LET storedData ==
                  CHOOSE e \in StoreGet(refreshTokenStore, tok) : TRUE
                rotated == refreshAccessTokenRotate(
                             refreshTokenStore, tokenBlacklist, storedData, tok)
                pair == issueTokenPair(storedData.address, storedData.tokenId,
                          refreshAccessTokenContract(storedData, tok),
                          storedData.jti, now)
            IN  /\ tokenBlacklist' = rotated.blacklist
                /\ refreshTokenStore' =
                     issueTokenPairStore(rotated.store, pair, now)
                /\ unswept' =
                     issueTokenPairStore(
                       refreshAccessTokenRotate(unswept, tokenBlacklist,
                                                storedData, tok).store,
                       pair, now)
                /\ pairs' = Append(pairs, pair)
                /\ last' = [Ran("refresh", tok, 0, out, pair.jti, 0, raced)
                              EXCEPT !.expiresIn = expiresIn(pair)]
      \/ /\ out = "CredentialRevoked"
         /\ refreshTokenStore' =
              refreshAccessTokenRevoked(refreshTokenStore, tok)
         /\ unswept' = refreshAccessTokenRevoked(unswept, tok)
         /\ last' = Ran("refresh", tok, 0, out, 0, 0, raced)
         /\ UNCHANGED <<tokenBlacklist, pairs>>
      \/ /\ out \notin {"Refreshed", "CredentialRevoked"}
         /\ last' = Ran("refresh", tok, 0, out, 0, 0, raced)
         /\ UNCHANGED <<Stores, tokenBlacklist, pairs>>

\* POST /auth/refresh: refreshHandler -> refreshJwt -> refreshAccessToken,
\* and the handler answers
refreshHandler(tok) ==
  /\ refreshAccessToken(tok, FALSE)
  /\ UNCHANGED <<now, Quiet, reqs>>

\* refreshHandler runs for a request that was in flight
refreshHandlerInFlight(p) ==
  /\ reqs[p].pc = "arrived"
  /\ refreshAccessToken(reqs[p].tok, reqs[p].overtaken)
  /\ reqs' = AfterRefresh(p, refreshAccessTokenOutcome(reqs[p].tok) = "Refreshed")
  /\ UNCHANGED <<now, Quiet>>

\* a gate that puts the jti of every credential it sees on the blacklist
evmAuthMiddlewareRemembers(blacklist, tok) == blacklist \cup {tok.jti}

\* the blacklist as evmAuthMiddleware leaves it: isTokenRevoked(jti) is
\* tokenBlacklist.has(jti), and nothing else in the middleware touches it
evmAuthMiddlewareBlacklist(blacklist, tok) == blacklist

\* a request to /mcp reaches evmAuthMiddleware
gateHeader(hdr) ==
  /\ last' = [Ran("gate", splitToken(hdr), 0, evmAuthMiddlewareHeader(hdr),
                  0, 0, FALSE) EXCEPT !.scheme = hdr.scheme]
  /\ tokenBlacklist' =
       evmAuthMiddlewareBlacklist(tokenBlacklist, splitToken(hdr))
  /\ UNCHANGED <<now, Quiet, Stores, pairs, reqs>>

\* the same with no header (NoToken) or with "Bearer <tok>"
gate(tok) ==
  gateHeader(IF tok = NoToken THEN NoHeader ELSE Header("Bearer", tok))

\* the middleware handing every request on to the route's handler
callsNextAlways(outcome) == TRUE

\* return next() is reached only when no check of evmAuthMiddleware has
\* answered 401
callsNext(outcome) == outcome = "Admitted"

\* POST /auth/revoke, refused by evmAuthMiddleware: revokeHandler never runs
revokeRefused(tok) ==
  /\ ~callsNext(evmAuthMiddleware(tok))
  /\ last' = Ran("revoke", tok, 0, evmAuthMiddleware(tok), 0, 0, FALSE)
  /\ tokenBlacklist' = evmAuthMiddlewareBlacklist(tokenBlacklist, tok)
  /\ UNCHANGED <<now, Quiet, Stores, pairs, reqs>>

\* POST /auth/revoke from a caller evmAuthMiddleware admits: revokeHandler
\* calls revokeToken(jti) for the jti of the body
revokeHandler(jti) ==
  /\ \E tok \in Presentable : callsNext(evmAuthMiddleware(tok))
  /\ tokenBlacklist' = revokeTokenBlacklist(tokenBlacklist, jti)
  /\ refreshTokenStore' = revokeTokenStore(refreshTokenStore, jti)
  /\ unswept' = revokeTokenStore(unswept, jti)
  /\ last' = Ran("revoke", NoToken, jti, "Revoked", 0, 0, FALSE)
  /\ UNCHANGED <<now, Quiet, pairs, reqs>>

\* the session ids randomUUID() produces, in the order it produces them
SessionNames == <<"s1", "s2", "s3">>

\* names every object inherits from Object.prototype
Inherited == {"constructor"}

\* what a client may send as mcp-session-id ("": no such header)
SessionIds ==
  {""} \cup {SessionNames[i] : i \in 1..MaxSessions} \cup Inherited

Methods == {"POST", "GET", "DELETE", "PUT"}

\* transports[sessionId] is truthy: transports is a plain object ({}), so
\* the lookup also finds what the object inherits
transportsHas(sessionId) ==
  sessionId \in transports \/ sessionId \in Inherited

\* transport.handleRequest(...) / transport.close() on what the lookup
\* gave: a value that is no transport has neither method, the call throws
\* a TypeError and the catch block answers 500
transportCall(sessionId, answer) ==
  IF sessionId \in transports THEN answer ELSE "InternalError"

\* the record of a request to /mcp
McpRan(tok, method, sessionId, init, out) ==
  [Ran("mcp", tok, 0, out, 0, 0, FALSE)
     EXCEPT !.method = method, !.sid = sessionId, !.init = init]

\* mcpHandler: POST reuses the transport of a known session id, or opens a
\* new one for an initialize request without session id, else answers 400;
\* GET and DELETE answer 400 without a known session id; DELETE removes the
\* transport and closes it; any other method is answered 405. A transport
\* handling an initialize request either registers itself under a new
\* session id (onsessioninitialized) or refuses the request
mcpHandler(tok, method, sessionId, init) ==
  LET ran(out) == McpRan(tok, method, sessionId, init, out)
  IN  \/ /\ method = "POST"
         /\ sessionId # "" /\ transportsHas(sessionId)
         /\ last' = ran(transportCall(sessionId, "Handled"))
         /\ UNCHANGED <<transports, sessionCount>>
      \/ /\ method = "POST"
         /\ ~(sessionId # "" /\ transportsHas(sessionId))
         /\ sessionId = "" /\ init
         /\ \/ /\ sessionCount < MaxSessions
               /\ sessionCount' = sessionCount + 1
               /\ transports' = transports \cup {SessionNames[sessionCount']}
               /\ last' = ran("Initialized")
            \/ /\ last' = ran("TransportRefused")
               /\ UNCHANGED <<transports, sessionCount>>
      \/ /\ method = "POST"
         /\ ~(sessionId # "" /\ transportsHas(sessionId))
         /\ ~(sessionId = "" /\ init)
         /\ last' = ran("BadRequest")
         /\ UNCHANGED <<transports, sessionCount>>
      \/ /\ method \in {"GET", "DELETE"}
         /\ sessionId = "" \/ ~transportsHas(sessionId)
         /\ last' = ran("BadRequest")
         /\ UNCHANGED <<transports, sessionCount>>
      \/ /\ method = "GET"
         /\ ~(sessionId = "" \/ ~transportsHas(sessionId))
         /\ last' = ran(transportCall(sessionId, "Handled"))
         /\ UNCHANGED <<transports, sessionCount>>
      \/ /\ method = "DELETE"
         /\ ~(sessionId = "" \/ ~transportsHas(sessionId))
         /\ transports' = transports \ {sessionId}
         /\ last' = ran(transportCall(sessionId, "Terminated"))
         /\ UNCHANGED sessionCount
      \/ /\ method \notin {"POST", "GET", "DELETE"}
         /\ last' = ran("MethodNotAllowed")
         /\ UNCHANGED <<transports, sessionCount>>

\* app.use("/mcp", mcpLimiter, evmAuthMiddleware); app.all("/mcp",
\* mcpHandler): behind the limiters the gate answers 401 or hands on to
\* mcpHandler
mcpRoute(tok, method, sessionId, init) ==
  /\ IF callsNext(evmAuthMiddleware(tok))
     THEN mcpHandler(tok, method, sessionId, init)
     ELSE /\ last' = McpRan(tok, method, sessionId, init,
                            evmAuthMiddleware(tok))
          /\ UNCHANGED <<transports, sessionCount>>
  /\ UNCHANGED <<now, Config, authLimiter, Stores, tokenBlacklist,
                 pairs, reqs>>

\* transport.onclose: a transport that closes takes its session id out
transportCloses(sessionId) ==
  /\ sessionId \in transports
  /\ transports' = transports \ {sessionId}
  /\ last' = [Ran("close", NoToken, 0, "", 0, 0, FALSE)
               EXCEPT !.sid = sessionId]
  /\ UNCHANGED <<now, Config, authLimiter, generalLimiter, mcpLimiter,
                 limitedAt, sessionCount, Stores, tokenBlacklist,
                 pairs, reqs>>

\* the limiter's store counts a hit in a window of the given length
incrementFor(windowMs, client, t) ==
  IF client.resetTime <= t
  THEN [totalHits |-> 1, resetTime |-> t + windowMs]
  ELSE [client EXCEPT !.totalHits = @ + 1]

\* the 429 of a limiter in front of /mcp: neither generalLimiter nor
\* mcpLimiter has a handler of its own, the body is the message
resourceLimitedAnswer(tok, method, sessionId, init, key, limiter) ==
  [McpRan(tok, method, sessionId, init, "RateLimited")
     EXCEPT !.key = key, !.by = limiter, !.limitedAt = limitedAt[key]]

\* a request to /mcp as the middleware stack serves it: generalLimiter
\* (app.use, keyed by req.ip) counts it and may answer 429, then mcpLimiter
\* (keyed by getKey) counts it and may answer 429, then the route runs
mcpRequest(ip, tok, method, sessionId, init) ==
  LET key == getKey(ip, tok)
      general == incrementFor(GeneralWindow, generalLimiter[ip], now)
      mcp == incrementFor(McpWindow, mcpLimiter[key], now)
      limited(limiter) ==
        /\ last' = resourceLimitedAnswer(tok, method, sessionId, init, key,
                                         limiter)
        /\ limitedAt' = [limitedAt EXCEPT ![key] = now]
        /\ UNCHANGED <<now, Config, authLimiter, transports, sessionCount,
                       Stores, tokenBlacklist, pairs, reqs>>
  IN  /\ general.totalHits <= generalLimiterMax + 2
      /\ generalLimiter' = [generalLimiter EXCEPT ![ip] = general]
      /\ IF ~limiterCallsNext(general.totalHits > generalLimiterMax)
         THEN limited("generalLimiter") /\ UNCHANGED mcpLimiter
         ELSE /\ mcpLimiter' = [mcpLimiter EXCEPT ![key] = mcp]
              /\ IF ~limiterCallsNext(mcp.totalHits > mcpLimiterMax)
                 THEN limited("mcpLimiter")
                 ELSE /\ limitedAt' = [limitedAt EXCEPT ![key] = -1]
                      /\ mcpRoute(tok, method, sessionId, init)

\* setInterval(cleanupExpiredTokens, 60 * 60 * 1000)
cleanupExpiredTokens ==
  /\ refreshTokenStore' = cleanupExpiredTokensStore(refreshTokenStore, now)
  /\ unswept' = unswept
  /\ tokenBlacklist' = cleanupExpiredTokensBlacklist(tokenBlacklist, now)
  /\ last' = Ran("sweep", NoToken, 0, "", 0, 0, FALSE)
  /\ UNCHANGED <<now, Quiet, pairs, reqs>>

\* the clock reaches the next second
Tick ==
  /\ now < MaxTime
  /\ now' = now + 1
  /\ last' = NoOp
  /\ UNCHANGED <<Quiet, Stores, tokenBlacklist, pairs, reqs>>

\* the oracle call is the one suspension point: Spec lets one issuance wait
\* for it while every other request is answered as it arrives; it follows
\* the requests the limiters let through
Sequential == {1}

Next ==
  \/ \E p \in Sequential, w \in Wallets :
       issueJwt(p, w) /\ UNCHANGED authLimiter
  \/ \E p \in Sequential, w \in Wallets, c \in Contracts, t \in TokenIds :
       issueDynamicJwt(p, w, c, JsInt(t)) /\ UNCHANGED authLimiter
  \/ \E p \in Sequential, b \in Balances : balanceOfResolves(p, b)
  \/ \E p \in Sequential : balanceOfRejects(p)
  \/ \E tok \in Presentable : refreshHandler(tok)
  \/ \E tok \in Presentable \cup {NoToken} : gate(tok)
  \/ \E tok \in Presentable \cup {NoToken} : revokeRefused(tok)
  \/ \E j \in Jtis : revokeHandler(j)
  \/ cleanupExpiredTokens
  \/ Tick

Spec == Init /\ [][Next]_vars

\* the same process under any configured lifetimes
SpecEnv == InitEnv /\ [][Next]_vars

\* the issuance and refresh routes as registered, authLimiter included;
\* generalLimiter (100 requests per window in front of every route) is taken
\* not to be exhausted
NextLimiter ==
  \/ \E p \in Sequential, ip \in Ips, hdr \in {NoToken, ForgedToken},
        w \in Wallets : postAuth(p, ip, hdr, w)
  \/ \E p \in Sequential, ip \in Ips, hdr \in {NoToken, ForgedToken},
        w \in Wallets, c \in Contracts :
       postAuthDynamic(p, ip, hdr, w, c,
                       JsonNumber(JsInt(requiredTokenId + 1)))
  \/ \E p \in Sequential, b \in Balances : balanceOfResolves(p, b)
  \/ \E p \in Sequential : balanceOfRejects(p)
  \/ \E tok \in RefreshTokens : refreshHandler(tok)
  \/ Tick

SpecLimiter == Init /\ [][NextLimiter]_vars

\* the gate in front of /mcp under every form of Authorization header
NextGate ==
  \/ \E p \in Sequential, w \in Wallets :
       issueJwt(p, w) /\ UNCHANGED authLimiter
  \/ \E p \in Sequential, b \in Balances : balanceOfResolves(p, b)
  \/ \E p \in Sequential : balanceOfRejects(p)
  \/ \E hdr \in Headers : gateHeader(hdr)
  \/ \E j \in Jtis : revokeHandler(j)
  \/ Tick

SpecGate == Init /\ [][NextGate]_vars

\* the two issuance handlers under every kind of request body
NextBoundary ==
  \/ \E p \in Sequential, a \in Identities :
       authHandler(p, a) /\ UNCHANGED authLimiter
  \/ \E p \in Sequential, w \in Identities, c \in ContractInputs,
        raw \in RawTokenIds :
       dynamicAuthHandler(p, w, c, raw) /\ UNCHANGED authLimiter
  \/ \E p \in Sequential, b \in Balances : balanceOfResolves(p, b)
  \/ \E p \in Sequential : balanceOfRejects(p)
  \/ Tick

SpecBoundary == Init /\ [][NextBoundary]_vars

\* static grants, with refresh requests in flight on every slot before
\* their handlers run
NextConcurrent ==
  \/ \E p \in Req, w \in Wallets : issueJwt(p, w) /\ UNCHANGED authLimiter
  \/ \E p \in Req, b \in Balances : balanceOfResolves(p, b)
  \/ \E p \in Req : balanceOfRejects(p)
  \/ \E p \in Req, tok \in RefreshTokens : refreshArrives(p, tok)
  \/ \E p \in Req : refreshHandlerInFlight(p)
  \/ \E j \in Jtis : revokeHandler(j)
  \/ cleanupExpiredTokens
  \/ Tick

SpecConcurrent == Init /\ [][NextConcurrent]_vars

\* issuance requests and what the event loop runs by itself. The clock and
\* the sweep's timer always come round; nothing in issueJwt or
\* issueDynamicJwt (no timer, no Promise.race, no abort) makes the awaited
\* balanceOf settle, so no fairness is stated for the oracle's answers
NextLive ==
  \/ \E p \in Req, w \in Wallets : issueJwt(p, w) /\ UNCHANGED authLimiter
  \/ \E p \in Req, w \in Wallets, c \in Contracts :
       /\ issueDynamicJwt(p, w, c, JsInt(requiredTokenId))
       /\ UNCHANGED authLimiter
  \/ \E p \in Req, b \in Balances : balanceOfResolves(p, b)
  \/ \E p \in Req : balanceOfRejects(p)
  \/ cleanupExpiredTokens
  \/ Tick

\* issuance requests whose clients may go away while the oracle is asked
NextCancel ==
  \/ \E p \in Req, w \in Wallets : issueJwt(p, w) /\ UNCHANGED authLimiter
  \/ \E p \in Req, w \in Wallets, c \in Contracts :
       /\ issueDynamicJwt(p, w, c, JsInt(requiredTokenId))
       /\ UNCHANGED authLimiter
  \/ \E p \in Req : clientDisconnects(p)
  \/ \E p \in Req, b \in Balances : balanceOfResolves(p, b)
  \/ \E p \in Req : balanceOfRejects(p)
  \/ cleanupExpiredTokens
  \/ Tick

SpecCancel == Init /\ [][NextCancel]_vars

\* static grants, refresh, revoke and the sweep, with the timer of the
\* sweep (setInterval) and the clock always coming round
NextSweep ==
  \/ \E p \in Sequential, w \in Wallets :
       issueJwt(p, w) /\ UNCHANGED authLimiter
  \/ \E p \in Sequential, b \in Balances : balanceOfResolves(p, b)
  \/ \E p \in Sequential : balanceOfRejects(p)
  \/ \E tok \in RefreshTokens : refreshHandler(tok)
  \/ \E j \in Jtis : revokeHandler(j)
  \/ cleanupExpiredTokens
  \/ Tick

SpecSweep ==
  Init /\ [][NextSweep]_vars /\ WF_vars(Tick) /\ WF_vars(cleanupExpiredTokens)

\* the /mcp route as registered, behind generalLimiter and mcpLimiter, for
\* callers without an admissible credential
NextResource ==
  \/ \E ip \in Origins, tok \in {NoToken, ForgedToken},
        method \in {"POST", "GET"} :
       mcpRequest(ip, tok, method, "", FALSE)
  \/ Tick

SpecResource == Init /\ [][NextResource]_vars

\* the issuance route and the /mcp route, each behind its limiters, for one
\* subject calling /mcp from every origin
NextRateLimited ==
  \/ \E p \in Sequential, ip \in Ips, w \in Wallets :
       postAuth(p, ip, NoToken, w)
  \/ \E p \in Sequential, b \in Balances : balanceOfResolves(p, b)
  \/ \E ip \in Origins, tok \in {pairs[j].access : j \in Jtis} :
       mcpRequest(ip, tok, "POST", "", TRUE)
  \/ Tick

SpecRateLimited == Init /\ [][NextRateLimited]_vars

\* the downstream sessions behind the gate; generalLimiter and mcpLimiter
\* are taken not to be exhausted
NextSessions ==
  \/ \E p \in Sequential, w \in Wallets :
       issueJwt(p, w) /\ UNCHANGED authLimiter
  \/ \E p \in Sequential, b \in Balances : balanceOfResolves(p, b)
  \/ \E tok \in {pairs[j].access : j \in Jtis} \cup {NoToken},
        method \in Methods, sessionId \in SessionIds, init \in BOOLEAN :
       /\ mcpRoute(tok, method, sessionId, init)
       /\ UNCHANGED <<generalLimiter, mcpLimiter, limitedAt>>
  \/ \E sessionId \in SessionIds : transportCloses(sessionId)
  \/ Tick

SpecSessions == Init /\ [][NextSessions]_vars

SpecLive ==
  Init /\ [][NextLive]_vars /\ WF_vars(Tick) /\ WF_vars(cleanupExpiredTokens)

\* ------------------------------------------------------------------ claims
\* the last segment was refreshAccessToken on a refresh credential that an
\* earlier refresh had already rotated
ReplayOfRotated ==
  /\ last.op = "refresh"
  /\ last.tok \in RefreshTokens
  /\ Children(last.tok.jti) \ {last.new} # {}

\* C1 (as stated): once refresh(r) has succeeded, every later refresh(r)
\* fails with SessionNotFound or CredentialRevoked.
C1_ReplayFailsNotFoundOrRevoked ==
  ReplayOfRotated => last.out \in {"SessionNotFound", "CredentialRevoked"}

\* C1 (amended): once refresh(r) has succeeded, every later refresh(r) fails,
\* whatever issue, refresh, revoke or sweep steps came in between: with
\* SessionNotFound or CredentialRevoked while r is unexpired, and with the
\* expired-credential failure from r's expiry instant on; and in no state
\* would a refresh of an already rotated credential succeed.
C1_ReplayFails ==
  /\ ReplayOfRotated =>
       IF now < last.tok.exp
       THEN last.out \in {"SessionNotFound", "CredentialRevoked"}
       ELSE last.out = "ExpiredCredential"
  /\ \A r \in RefreshTokens :
       Children(r.jti) # {} => refreshAccessTokenOutcome(r) # "Refreshed"

C1_Witness ==
  /\ ReplayOfRotated
  /\ last.out = "SessionNotFound"

\* C2 (as stated): of the refresh requests in flight at once with the same
\* credential at most one succeeds and the others fail with SessionNotFound
\* or CredentialRevoked.
C2_RacedFailsNotFoundOrRevoked ==
  (last.op = "refresh" /\ last.raced) =>
    last.out \in {"SessionNotFound", "CredentialRevoked"}

\* C2 (amended): of the refresh requests in flight at once with the same
\* credential at most one succeeds; each other one fails, with SessionNotFound
\* or CredentialRevoked if it runs before the credential's expiry and with the
\* expired-credential failure if it runs at or after it; no jti ever has two
\* pairs rotated from it.
C2_AtMostOneConcurrentRefresh ==
  /\ \A j \in Jtis : Cardinality(Children(j)) <= 1
  /\ \A p \in Req :
       (reqs[p].pc = "arrived" /\ reqs[p].overtaken) =>
         refreshAccessTokenOutcome(reqs[p].tok) # "Refreshed"
  /\ (last.op = "refresh" /\ last.raced) =>
       IF now < last.tok.exp
       THEN last.out \in {"SessionNotFound", "CredentialRevoked"}
       ELSE last.out = "ExpiredCredential"

C2_Witness ==
  /\ last.op = "refresh"
  /\ last.raced
  /\ last.out = "SessionNotFound"

\* C3: no step takes a jti out of the Revocation Set (the sweep included),
\* and the gate answers CredentialRevoked to every correctly signed, unexpired
\* access credential whose jti is in the set.
C3_RevocationPermanent ==
  /\ last.preBlacklist \subseteq tokenBlacklist
  /\ \A j \in Jtis :
       (j \in tokenBlacklist /\ now < pairs[j].access.exp) =>
         evmAuthMiddleware(pairs[j].access) = "CredentialRevoked"
  /\ (/\ last.op = "gate"
      /\ last.tok.sig
      /\ last.tok.type = "access"
      /\ now < last.tok.exp
      /\ last.tok.jti \in tokenBlacklist) => last.out = "CredentialRevoked"

C3_Witness ==
  /\ last.op = "gate"
  /\ last.out = "CredentialRevoked"
  /\ last.tok.jti \in tokenBlacklist

\* C4: a pair produced by refresh stays valid until its own expiry or
\* revocation: the gate admits its access credential while that is unexpired
\* and unrevoked, and its refresh credential can be refreshed while that is
\* unexpired and unrevoked, for static and for dynamic grants alike.
C4_RefreshedPairStaysValid ==
  \A j \in Jtis :
    (pairs[j].parent # 0 /\ j \notin tokenBlacklist) =>
      /\ now < pairs[j].access.exp =>
           evmAuthMiddleware(pairs[j].access) = "Admitted"
      /\ now < pairs[j].refresh.exp =>
           refreshAccessTokenOutcome(pairs[j].refresh) = "Refreshed"

\* C5: the gate admits no correctly signed credential whose kind is not
\* access, and answers WrongCredentialKind while that credential is unexpired.
C5_GateRefusesRefreshKind ==
  /\ \A r \in RefreshTokens : evmAuthMiddleware(r) # "Admitted"
  /\ (last.op = "gate" /\ last.tok.sig /\ last.tok.type # "access") =>
       /\ last.out # "Admitted"
       /\ now < last.tok.exp => last.out = "WrongCredentialKind"

C5_Witness ==
  /\ last.op = "gate"
  /\ last.tok \in RefreshTokens
  /\ last.tok.jti \notin tokenBlacklist
  /\ last.out = "WrongCredentialKind"

\* C6: an unrevoked access credential that satisfies the requirement check
\* is admitted at every second t with issuedAt <= t < expiry and is answered
\* ExpiredCredential at every second t >= expiry.
C6_ExpiryClosedOpen ==
  (/\ last.op = "gate"
   /\ last.tok.sig
   /\ last.tok.type = "access"
   /\ last.tok.jti \notin tokenBlacklist
   /\ (last.tok.contract # NoContract \/ last.tok.tokenId = requiredTokenId)) =>
     /\ (last.tok.iat <= now /\ now < last.tok.exp) => last.out = "Admitted"
     /\ now >= last.tok.exp => last.out = "ExpiredCredential"

C6_Witness ==
  /\ last.op = "gate"
  /\ last.tok.sig
  /\ last.tok.type = "access"
  /\ last.tok.jti \notin tokenBlacklist
  /\ now = last.tok.exp
  /\ last.out = "ExpiredCredential"

\* C7: every minted pair has one jti for both credentials and an access
\* expiry strictly before its refresh expiry, whatever lifetimes are
\* configured.
C7_AccessExpiresFirst ==
  \A j \in Jtis :
    /\ pairs[j].access.jti = pairs[j].refresh.jti
    /\ pairs[j].access.exp < pairs[j].refresh.exp

\* C8: when the oracle reports balance zero, issuance fails with
\* OwnershipNotSatisfied, mints nothing, and leaves the Session Store and the
\* Revocation Set as they were.
C8_FailedIssuanceNoEffect ==
  (last.op \in {"static", "dynamic"} /\ last.balance = 0) =>
    /\ last.out = "OwnershipNotSatisfied"
    /\ last.new = 0
    /\ refreshTokenStore = last.preStore
    /\ tokenBlacklist = last.preBlacklist

C8_Witness ==
  /\ last.op \in {"static", "dynamic"}
  /\ last.balance = 0
  /\ last.out = "OwnershipNotSatisfied"
  /\ refreshTokenStore # {}

\* C9: refresh of an unexpired refresh credential whose jti was explicitly
\* revoked (it is in the Revocation Set and was never rotated) fails with
\* CredentialRevoked.
C9_RevokedRefreshSaysRevoked ==
  (/\ last.op = "refresh"
   /\ last.tok \in RefreshTokens
   /\ now < last.tok.exp
   /\ last.tok.jti \in last.preBlacklist
   /\ Children(last.tok.jti) = {}) => last.out = "CredentialRevoked"

\* C10: revoke(j) of a jti that is already revoked changes neither the
\* Session Store nor the Revocation Set and is answered like the first, and
\* in every state revoking twice leaves what revoking once leaves.
C10_RevokeIdempotent ==
  /\ (last.op = "revoke" /\ last.out = "Revoked"
        /\ last.jti \in last.preBlacklist) =>
       /\ refreshTokenStore = last.preStore
       /\ tokenBlacklist = last.preBlacklist
  /\ \A j \in Jtis :
       /\ revokeTokenStore(revokeTokenStore(refreshTokenStore, j), j)
            = revokeTokenStore(refreshTokenStore, j)
       /\ revokeTokenBlacklist(revokeTokenBlacklist(tokenBlacklist, j), j)
            = revokeTokenBlacklist(tokenBlacklist, j)

C10_Witness ==
  /\ last.op = "revoke"
  /\ last.out = "Revoked"
  /\ last.jti \in last.preBlacklist

C12_IssuanceRateLimit ==
  [][\A k \in Keys :
       authLimiter'[k] # authLimiter[k] =>
         LET old == authLimiter[k]
             new == authLimiter'[k]
             open == now < old.resetTime
             hits == IF open THEN old.totalHits + 1 ELSE 1
         IN  /\ new.totalHits = hits
             /\ new.resetTime =
                  IF open THEN old.resetTime ELSE now + AuthWindow
             /\ hits <= authLimiterMax =>
                  /\ last'.out # "RateLimited"
                  /\ \E p \in Req :
                       reqs[p].pc = "idle" /\ reqs'[p].pc = "oracle"
             /\ hits > authLimiterMax =>
                  /\ last'.out = "RateLimited"
                  /\ last'.key = k
                  /\ last'.retryAfter > 0
                  /\ last'.retryAfter > now
                  /\ UNCHANGED <<refreshTokenStore, tokenBlacklist, pairs,
                                 reqs>>
  ]_vars

C12_Witness ==
  /\ last.out = "RateLimited"
  /\ last.op \in {"static", "dynamic"}
  /\ authLimiter[last.key].totalHits = authLimiterMax + 1
  /\ last.retryAfter > now

\* C13: a refresh request made while every key has used up authLimiter's
\* maximum in its running window is answered RateLimited and rotates
\* nothing.
C13_RefreshRateLimited ==
  (/\ last.op = "refresh"
   /\ \A k \in Keys :
        /\ authLimiter[k].totalHits >= authLimiterMax
        /\ now < authLimiter[k].resetTime) =>
    /\ last.out = "RateLimited"
    /\ refreshTokenStore = last.preStore

\* the reason of the first check, in the order header, signature, expiry,
\* kind, revocation, requirement, that tok fails now, or Admitted
FirstFailingCheck(tok) ==
  CASE tok = NoToken -> "MissingCredential"
    [] tok # NoToken /\ ~tok.sig -> "MalformedCredential"
    [] tok.sig /\ now >= tok.exp -> "ExpiredCredential"
    [] tok.sig /\ now < tok.exp /\ tok.type # "access" -> "WrongCredentialKind"
    [] tok.sig /\ now < tok.exp /\ tok.type = "access"
         /\ tok.jti \in tokenBlacklist -> "CredentialRevoked"
    [] tok.sig /\ now < tok.exp /\ tok.type = "access"
         /\ tok.jti \notin tokenBlacklist
         /\ tok.contract = NoContract /\ tok.tokenId # requiredTokenId
         -> "RequirementMismatch"
    [] OTHER -> "Admitted"

\* C14: the gate answers every request with the reason of the earliest
\* failing check in the order header, signature/expiry, kind, revocation,
\* requirement, and with Admitted only when none fails; on the revoke
\* route a request that is not admitted is answered with that reason and
\* changes nothing (revokeHandler does not run).
C14_GateFirstFailingCheck ==
  /\ \A tok \in Presentable \cup {NoToken} :
       evmAuthMiddleware(tok) = FirstFailingCheck(tok)
  /\ last.op = "gate" => last.out = FirstFailingCheck(last.tok)
  /\ (last.op = "revoke" /\ last.out # "Revoked") =>
       /\ last.out = FirstFailingCheck(last.tok)
       /\ last.out # "Admitted"
       /\ refreshTokenStore = last.preStore
       /\ tokenBlacklist = last.preBlacklist

C14_Witness ==
  /\ last.op = "gate"
  /\ last.tok \in RefreshTokens
  /\ last.tok.jti \in tokenBlacklist
  /\ last.out = "WrongCredentialKind"

\* C15: a request with no Authorization header, and one whose header is
\* not of the form "Bearer <credential>", is answered MissingCredential.
C15_NoBearerIsMissing ==
  (last.op = "gate" /\ last.scheme # "Bearer") =>
    last.out = "MissingCredential"

\* C16: a correctly signed credential presented at or after its expiry is
\* answered ExpiredCredential, and a credential whose signature does not
\* verify is answered MalformedCredential, whether or not the expiry it
\* carries has passed.
C16_ExpiredAndMalformedDistinct ==
  /\ \A tok \in Presentable :
       /\ (tok.sig /\ now >= tok.exp) =>
            evmAuthMiddleware(tok) = "ExpiredCredential"
       /\ ~tok.sig => evmAuthMiddleware(tok) = "MalformedCredential"
  /\ (last.op = "gate" /\ last.tok # NoToken) =>
       /\ (last.tok.sig /\ now >= last.tok.exp) =>
            last.out = "ExpiredCredential"
       /\ ~last.tok.sig => last.out = "MalformedCredential"

C16_Witness ==
  /\ last.op = "gate"
  /\ last.tok # NoToken
  /\ ~last.tok.sig
  /\ now >= last.tok.exp
  /\ last.out = "MalformedCredential"

C18_StaticValidatesIdentity ==
  /\ \A p \in Req :
       (reqs[p].pc = "oracle" /\ reqs[p].kind = "static") =>
         isAddress(reqs[p].wallet)
  /\ (last.op = "static" /\ ~isAddress(last.wallet)) =>
       /\ last.out = "InvalidIdentity"
       /\ last.balance = OracleNotQueried
       /\ last.new = 0
       /\ refreshTokenStore = last.preStore

\* C19: issueDynamic queries the oracle only when wallet and contract are
\* well-formed addresses and the tokenId received is a non-negative integer;
\* every other request (tokenId negative, fractional, non-numeric, null or
\* empty) fails with InvalidRequest without an oracle query and without
\* creating a Session Record.
C19_DynamicValidatesRequest ==
  /\ \A p \in Req :
       (reqs[p].pc = "oracle" /\ reqs[p].kind = "dynamic") =>
         /\ isAddress(reqs[p].wallet)
         /\ isAddress(reqs[p].contract)
         /\ reqs[p].json = "integer"
  /\ (/\ last.op = "dynamic"
      /\ \/ ~isAddress(last.wallet)
         \/ ~isAddress(last.contract)
         \/ last.json # "integer") =>
       /\ last.out = "InvalidRequest"
       /\ last.balance = OracleNotQueried
       /\ last.new = 0
       /\ refreshTokenStore = last.preStore

\* C20: the pair produced by refresh carries the subject, the token id and
\* the contract claim of the pair it was rotated from.
C20_RotationKeepsRequirement ==
  \A j \in Jtis :
    pairs[j].parent # 0 =>
      LET old == pairs[pairs[j].parent].access
          new == pairs[j].access
      IN  /\ new.sub = old.sub
          /\ new.tokenId = old.tokenId
          /\ new.contract = old.contract

\* the credentials the gate admits when the Revocation Set is blacklist
AdmittedUnder(blacklist) ==
  {tok \in Presentable :
     /\ tok.sig
     /\ now < tok.exp
     /\ tok.type = "access"
     /\ tok.jti \notin blacklist
     /\ (tok.contract # NoContract \/ tok.tokenId = requiredTokenId)}

\* C21: a revoke request whose credential is missing, malformed, expired,
\* of the wrong kind, revoked or failing the requirement check is answered
\* with the gate's reason and leaves the Revocation Set and the Session
\* Store as they were; revokeToken runs only for a caller whose credential
\* the gate admitted.
C21_RevokeOnlyWhenAdmitted ==
  /\ (last.op = "revoke" /\ last.out # "Revoked") =>
       /\ last.tok \notin AdmittedUnder(last.preBlacklist)
       /\ last.out = evmAuthMiddleware(last.tok)
       /\ last.out \in {"MissingCredential", "MalformedCredential",
                        "ExpiredCredential", "WrongCredentialKind",
                        "CredentialRevoked", "RequirementMismatch"}
       /\ tokenBlacklist = last.preBlacklist
       /\ refreshTokenStore = last.preStore
  /\ (last.op = "revoke" /\ last.out = "Revoked") =>
       AdmittedUnder(last.preBlacklist) # {}

C21_Witness ==
  /\ last.op = "revoke"
  /\ last.out = "CredentialRevoked"
  /\ refreshTokenStore # {}
  /\ tokenBlacklist # {}

\* C22: each successful static or dynamic issuance has asked the oracle
\* exactly once when it answers; an issuance waiting for the oracle has one
\* query outstanding and a refresh in flight has none; refresh, revoke, the
\* gate and the sweep answer without any oracle query.
C22_OneOracleQueryPerGrant ==
  /\ last.out = "Issued" =>
       /\ last.op \in {"static", "dynamic"}
       /\ last.queries = 1
       /\ last.balance \in Balances \ {0}
  /\ last.op \in {"refresh", "revoke", "gate", "sweep"} =>
       /\ last.queries = 0
       /\ last.balance # OracleRejected
  /\ \A p \in Req :
       /\ reqs[p].pc = "oracle" => reqs[p].queries = 1
       /\ reqs[p].pc # "oracle" => reqs[p].queries = 0

C22_Witness ==
  /\ last.out = "Issued"
  /\ last.queries = 1
  /\ Len(pairs) = 2
  /\ tokenBlacklist # {}

\* C23: in the state right after a successful refresh of r, the jti of r is
\* in the Revocation Set and the Session Record of r is gone, and the gate
\* answers CredentialRevoked to the old access credential (same jti) for as
\* long as that credential has not expired.
C23_RotationRevokesOldPair ==
  (last.op = "refresh" /\ last.out = "Refreshed") =>
    LET old == pairs[last.tok.jti]
    IN  /\ old.refresh = last.tok
        /\ old.access.jti = last.tok.jti
        /\ last.tok.jti \in tokenBlacklist
        /\ StoreGet(refreshTokenStore, last.tok) = {}
        /\ now < old.access.exp =>
             evmAuthMiddleware(old.access) = "CredentialRevoked"
        /\ now >= old.access.exp =>
             evmAuthMiddleware(old.access) = "ExpiredCredential"

C23_Witness ==
  /\ last.op = "refresh"
  /\ last.out = "Refreshed"
  /\ now < pairs[last.tok.jti].access.exp
  /\ last.tok.jti \notin last.preBlacklist
  /\ StoreGet(last.preStore, last.tok) # {}

C25_IssuanceCompletes ==
  \A p \in Req : (reqs[p].pc = "oracle") ~> (reqs[p].pc = "idle")

\* C26: no Session Record exists for a pair that was delivered to no one:
\* when the client of an issuance has disconnected, the pair minted for it
\* has no record in the Session Store.
C26_NoRecordForUndeliveredPair ==
  (last.out = "Issued" /\ ~last.delivered) =>
    \A e \in refreshTokenStore : e.jti # last.new

\* C27: the expiresIn of an Issue or Refresh response is the number of
\* seconds until the access credential expires, that is the configured
\* access lifetime (900 by default).
C27_ExpiresInIsLifetime ==
  last.out \in {"Issued", "Refreshed"} =>
    /\ last.expiresIn = pairs[last.new].access.exp - now
    /\ last.expiresIn = ACCESS_TOKEN_EXPIRY

\* every credential a client can present, re-signed with a wrong key and
\* carrying any subject
Forgeries ==
  {[tok EXCEPT !.sig = FALSE, !.sub = s] :
     tok \in Presentable, s \in Identities}

\* C28: a credential whose signature does not verify is never admitted by
\* the gate and never drives a refresh, whatever claims it carries: every
\* such credential gets the same answer from the gate and from refresh
\* although getKey reads its unverified subject, and the request it comes
\* with changes neither the Session Store nor the Revocation Set.
C28_UnverifiedClaimsHaveNoInfluence ==
  /\ \A f \in Forgeries :
       /\ evmAuthMiddleware(f) = "MalformedCredential"
       /\ refreshAccessTokenOutcome(f) = "MalformedCredential"
       /\ ~callsNext(evmAuthMiddleware(f))
       /\ f.sub # "" => \A ip \in Ips : getKey(ip, f) = f.sub
  /\ (last.op \in {"gate", "refresh", "revoke"} /\ last.tok # NoToken
        /\ ~last.tok.sig /\ last.scheme \in {"", "Bearer"}) =>
       /\ last.out = "MalformedCredential"
       /\ last.new = 0
       /\ refreshTokenStore = last.preStore
       /\ tokenBlacklist = last.preBlacklist

C28_Witness ==
  /\ last.op = "refresh"
  /\ last.tok = ForgedToken
  /\ last.out = "MalformedCredential"
  /\ \E e \in refreshTokenStore :
       /\ e.address = ForgedToken.sub
       /\ e.jti \notin tokenBlacklist
       /\ [e.token EXCEPT !.sig = FALSE] \in Forgeries

\* the reasons for which the refresh fails before it has looked at the
\* Revocation Set
RefreshFailures ==
  {"MalformedCredential", "ExpiredCredential", "WrongCredentialKind",
   "SessionNotFound"}

\* C29: a refresh that fails because the credential is malformed, expired,
\* of access kind or without Session Record leaves the Session Store and
\* the Revocation Set unchanged and mints no pair; a successful refresh
\* adds the old jti to the Revocation Set, deletes the old record and
\* records exactly one new record, for the one pair it mints.
C29_FailedRefreshChangesNothing ==
  [][/\ (last'.op = "refresh" /\ last'.out \in RefreshFailures) =>
          /\ refreshTokenStore' = refreshTokenStore
          /\ tokenBlacklist' = tokenBlacklist
          /\ pairs' = pairs
          /\ last'.new = 0
     /\ (last'.op = "refresh" /\ last'.out = "Refreshed") =>
          /\ tokenBlacklist' = tokenBlacklist \cup {last'.tok.jti}
          /\ StoreGet(refreshTokenStore, last'.tok) # {}
          /\ StoreGet(refreshTokenStore', last'.tok) = {}
          /\ \A e \in refreshTokenStore \ refreshTokenStore' :
               e.jti = last'.tok.jti
          /\ Cardinality(refreshTokenStore' \ refreshTokenStore) = 1
          /\ \A e \in refreshTokenStore' \ refreshTokenStore :
               e.jti = last'.new /\ e.token = pairs'[last'.new].refresh
          /\ Len(pairs') = Len(pairs) + 1
          /\ last'.new = Len(pairs')]_vars

C29_Witness ==
  /\ last.op = "refresh"
  /\ last.out = "SessionNotFound"
  /\ refreshTokenStore # {}
  /\ tokenBlacklist # {}
  /\ Len(pairs) = MaxPairs

\* C30: no evaluation of the gate, admitting or rejecting, in front of /mcp
\* or in front of /auth/revoke, changes the Session Store or the Revocation
\* Set; a step that changes either is a static or dynamic issuance, a
\* refresh, a revoke or the sweep.
C30_GateReadOnly ==
  [][/\ (\/ last'.op = "gate"
         \/ last'.op = "revoke" /\ last'.out # "Revoked") =>
          /\ refreshTokenStore' = refreshTokenStore
          /\ tokenBlacklist' = tokenBlacklist
     /\ (\/ refreshTokenStore' # refreshTokenStore
         \/ tokenBlacklist' # tokenBlacklist) =>
          \/ last'.op \in {"static", "dynamic"} /\ last'.out = "Issued"
          \/ last'.op = "refresh"
               /\ last'.out \in {"Refreshed", "CredentialRevoked"}
          \/ last'.op = "revoke" /\ last'.out = "Revoked"
          \/ last'.op = "sweep"]_vars

C30_Witness ==
  /\ last.op = "gate"
  /\ last.out = "Admitted"
  /\ tokenBlacklist # {}
  /\ refreshTokenStore # {}
  /\ last.tok.jti \notin tokenBlacklist

\* the pair with jti j has a Session Record
HasRecord(j) == j \in Jtis /\ \E e \in refreshTokenStore : e.jti = j

\* the Session Record of pair j belongs to a refresh credential whose
\* expiry has passed, with clock time left for a sweep after it
ExpiredRecord(j) ==
  /\ HasRecord(j)
  /\ pairs[j].refresh.exp <= now
  /\ pairs[j].refresh.exp < MaxTime

\* C31: a sweep deletes exactly the Session Records whose refresh
\* credential's expiry has passed, keeps every unexpired record and leaves
\* the Revocation Set alone; it never runs inside a refresh or a revoke (the
\* records such a step takes away are those of its own jti); and with the
\* sweep's timer firing again and again every expired record is eventually
\* deleted.
C31_SweepDeletesOnlyExpired ==
  /\ [][/\ last'.op = "sweep" =>
            /\ refreshTokenStore' \subseteq refreshTokenStore
            /\ \A e \in refreshTokenStore \ refreshTokenStore' :
                 e.token.exp < now /\ jwtVerify(e.token, now) # "ok"
            /\ \A e \in refreshTokenStore' : e.token.exp >= now
            /\ \A e \in refreshTokenStore :
                 jwtVerify(e.token, now) = "ok" => e \in refreshTokenStore'
            /\ tokenBlacklist' = tokenBlacklist
            /\ pairs' = pairs
        /\ last'.op = "refresh" =>
            \A e \in refreshTokenStore \ refreshTokenStore' :
              e.token = last'.tok
        /\ last'.op = "revoke" =>
            \A e \in refreshTokenStore \ refreshTokenStore' :
              e.jti = last'.jti]_vars
  /\ \A j \in 1..MaxPairs : ExpiredRecord(j) ~> ~HasRecord(j)

C31_Witness ==
  /\ last.op = "sweep"
  /\ last.preStore # refreshTokenStore
  /\ refreshTokenStore # {}
  /\ \E e \in last.preStore \ refreshTokenStore : e.token.exp < MaxTime

\* C32: a key that /mcp has answered RateLimited is let through by the
\* rate limiters on its first call to /mcp after a window of mcpLimiter has
\* passed since that answer.
C32_ResourceLimiterResets ==
  (/\ last.op = "mcp"
   /\ last.limitedAt >= 0
   /\ now >= last.limitedAt + McpWindow) => last.out # "RateLimited"

\* the store with the record of pair j put (back) into it, as issueTokenPair
\* recorded it
WithRecord(store, j) ==
  issueTokenPairStore(store, pairs[j], pairs[j].refresh.iat)

\* C33: no Session Record has a jti that is in the Revocation Set; and
\* were refresh to find such a record (the record of any unexpired refresh
\* credential put next to its jti on the blacklist), it would answer
\* CredentialRevoked and delete that record and no other.
C33_StoreRevocationConsistent ==
  /\ \A e \in refreshTokenStore : e.jti \notin tokenBlacklist
  /\ \A j \in Jtis :
       jwtVerify(pairs[j].refresh, now) = "ok" =>
         LET r == pairs[j].refresh
             store == WithRecord(refreshTokenStore, j)
             after == refreshAccessTokenRevoked(store, r)
         IN  /\ refreshAccessTokenOutcomeIn(store, tokenBlacklist \cup {j},
                                             r, now) = "CredentialRevoked"
             /\ StoreGet(after, r) = {}
             /\ after = store \ StoreGet(store, r)
  /\ (last.op = "refresh" /\ last.out = "CredentialRevoked") =>
       /\ last.new = 0
       /\ StoreGet(refreshTokenStore, last.tok) = {}

C33_Witness ==
  /\ last.op = "revoke"
  /\ last.out = "Revoked"
  /\ \E e \in last.preStore : e.jti = last.jti
  /\ refreshTokenStore # {}
  /\ tokenBlacklist = {last.jti}
  /\ jwtVerify(pairs[last.jti].refresh, now) = "ok"

\* C34: revoke(j) takes away exactly the Session Records with jti j and
\* adds exactly j to the Revocation Set; for every pair with another jti,
\* one rotated from j included, the gate's answer to its access credential
\* and refresh's answer to its refresh credential are what they were.
C34_RevokeTouchesOnlyItsJti ==
  [][(last'.op = "revoke" /\ last'.out = "Revoked") =>
       LET j == last'.jti
       IN  /\ refreshTokenStore' = {e \in refreshTokenStore : e.jti # j}
           /\ tokenBlacklist' = tokenBlacklist \cup {j}
           /\ pairs' = pairs
           /\ \A i \in Jtis \ {j} :
                /\ evmAuthMiddleware(pairs[i].access)' =
                     evmAuthMiddleware(pairs[i].access)
                /\ refreshAccessTokenOutcome(pairs[i].refresh)' =
                     refreshAccessTokenOutcome(pairs[i].refresh)]_vars

C34_Witness ==
  /\ last.op = "revoke"
  /\ last.out = "Revoked"
  /\ \E c \in Children(last.jti) :
       /\ evmAuthMiddleware(pairs[c].access) = "Admitted"
       /\ refreshAccessTokenOutcome(pairs[c].refresh) = "Refreshed"

\* the issuance attempts authLimiter has let through under key k in the
\* window of k that is running
PassedInWindow(k) ==
  IF now < authLimiter[k].resetTime
  THEN IF authLimiter[k].totalHits > authLimiterMax
       THEN authLimiterMax ELSE authLimiter[k].totalHits
  ELSE 0

RECURSIVE PassedUnder(_)
PassedUnder(keys) ==
  IF keys = {} THEN 0
  ELSE LET k == CHOOSE x \in keys : TRUE
       IN  PassedInWindow(k) + PassedUnder(keys \ {k})

C36_RateLimitedHasNoEffect ==
  [][/\ last'.out = "RateLimited" =>
          /\ UNCHANGED <<refreshTokenStore, tokenBlacklist, pairs, reqs,
                         transports, sessionCount>>
          /\ last'.queries = 0
          /\ last'.new = 0
          /\ last'.op \in {"static", "dynamic"} =>
               last'.balance = OracleNotQueried
     /\ \A k \in Keys :
          (/\ authLimiter'[k] # authLimiter[k]
           /\ authLimiter'[k].totalHits > authLimiterMax) =>
            /\ last'.out = "RateLimited"
            /\ last'.op \in {"static", "dynamic"}
     /\ \A ip \in Origins :
          (/\ generalLimiter'[ip] # generalLimiter[ip]
           /\ generalLimiter'[ip].totalHits > generalLimiterMax) =>
            /\ last'.out = "RateLimited"
            /\ last'.by = "generalLimiter"
            /\ mcpLimiter' = mcpLimiter
     /\ \A k \in McpKeys :
          (/\ mcpLimiter'[k] # mcpLimiter[k]
           /\ mcpLimiter'[k].totalHits > mcpLimiterMax) =>
            /\ last'.out = "RateLimited"
            /\ last'.by = "mcpLimiter"]_vars

C36_Witness ==
  /\ last.op = "mcp"
  /\ last.out = "RateLimited"
  /\ last.by = "mcpLimiter"
  /\ evmAuthMiddleware(last.tok) = "Admitted"
  /\ \E k \in Keys :
       /\ authLimiter[k].totalHits > authLimiterMax
       /\ now < authLimiter[k].resetTime

\* C37: the sweep is unobservable. refreshTokenStore is what the calls made
\* so far leave with the sweeps that ran, unswept is what the same calls
\* leave with no sweep: the two differ only in records of expired refresh
\* credentials, refresh gives every credential the same answer on either,
\* and the sweep leaves the Revocation Set, which the gate reads, alone.
C37_SweepUnobservable ==
  /\ refreshTokenStore \subseteq unswept
  /\ \A e \in unswept \ refreshTokenStore :
       jwtVerify(e.token, now) = "TokenExpiredError"
  /\ \A tok \in Presentable :
       refreshAccessTokenOutcomeIn(unswept, tokenBlacklist, tok, now) =
         refreshAccessTokenOutcome(tok)
  /\ last.op = "sweep" => tokenBlacklist = last.preBlacklist

C37_Witness ==
  /\ last.op = "refresh"
  /\ last.out = "ExpiredCredential"
  /\ StoreGet(unswept, last.tok) # {}
  /\ StoreGet(refreshTokenStore, last.tok) = {}

\* C38: an admitted POST, GET or DELETE that names a session id without a
\* registered transport is answered 400 and registers nothing.
C38_UnknownSessionIsBadRequest ==
  (/\ last.op = "mcp"
   /\ callsNext(evmAuthMiddleware(last.tok))
   /\ last.method \in {"POST", "GET", "DELETE"}
   /\ last.sid # ""
   /\ last.sid \notin last.preTransports) =>
    /\ last.out = "BadRequest"
    /\ transports = last.preTransports

====
